---- MODULE Spec2Model ----
(***************************************************************************)
(* A model of the Observation Ticket Creator of OmegaLambda                *)
(* (observation_tickets/Observation_ticket_creator.pyw, current revision). *)
(*                                                                         *)
(* Python strings on which the program performs character operations       *)
(* (upper, lower, replace, split, strip, strptime, strftime) are modelled  *)
(* as sequences of one-character strings; values the program only copies   *)
(* are TLA+ strings.  An operator that models a call which can raise        *)
(* returns a record whose field ok is FALSE when the call raises.           *)
(***************************************************************************)
EXTENDS Integers, Sequences, FiniteSets, TLC

(***************************************************************************)
(* Python str primitives                                                   *)
(***************************************************************************)
LowerLetters == <<"a","b","c","d","e","f","g","h","i","j","k","l","m",
                  "n","o","p","q","r","s","t","u","v","w","x","y","z">>
UpperLetters == <<"A","B","C","D","E","F","G","H","I","J","K","L","M",
                  "N","O","P","Q","R","S","T","U","V","W","X","Y","Z">>
Digits == <<"0","1","2","3","4","5","6","7","8","9">>
Whitespace == {" ", "\n", "\t", "\r"}

\* str.upper() on one character
UpperChar(c) ==
    IF \E i \in 1..26 : LowerLetters[i] = c
    THEN UpperLetters[CHOOSE i \in 1..26 : LowerLetters[i] = c]
    ELSE c

\* str.lower() on one character
LowerChar(c) ==
    IF \E i \in 1..26 : UpperLetters[i] = c
    THEN LowerLetters[CHOOSE i \in 1..26 : UpperLetters[i] = c]
    ELSE c

str_upper(s) == [i \in 1..Len(s) |-> UpperChar(s[i])]
str_lower(s) == [i \in 1..Len(s) |-> LowerChar(s[i])]

startswith(s, p) == Len(s) >= Len(p) /\ SubSeq(s, 1, Len(p)) = p

\* s.split(sep): the list of the pieces of s between occurrences of sep,
\* found left to right; i scans s, start is where the current piece begins
RECURSIVE SplitFrom(_, _, _, _)
SplitFrom(s, sep, i, start) ==
    IF i + Len(sep) - 1 > Len(s) THEN <<SubSeq(s, start, Len(s))>>
    ELSE IF SubSeq(s, i, i + Len(sep) - 1) = sep
         THEN <<SubSeq(s, start, i - 1)>>
              \o SplitFrom(s, sep, i + Len(sep), i + Len(sep))
         ELSE SplitFrom(s, sep, i + 1, start)

str_split(s, sep) == SplitFrom(s, sep, 1, 1)

\* s.strip(): leading and trailing whitespace removed
RECURSIVE lstrip(_)
lstrip(s) == IF s # <<>> /\ s[1] \in Whitespace THEN lstrip(Tail(s)) ELSE s

RECURSIVE rstrip(_)
rstrip(s) ==
    IF s # <<>> /\ s[Len(s)] \in Whitespace
    THEN rstrip(SubSeq(s, 1, Len(s) - 1)) ELSE s

str_strip(s) == rstrip(lstrip(s))

\* sep.join(parts)
RECURSIVE str_join(_, _)
str_join(sep, parts) ==
    IF parts = <<>> THEN <<>>
    ELSE IF Len(parts) = 1 THEN parts[1]
    ELSE parts[1] \o sep \o str_join(sep, Tail(parts))

\* s.replace(old, new), old not empty: the pieces between the occurrences of
\* old, joined by new
str_replace(s, old, new) == str_join(new, str_split(s, old))

IsDigit(c) == \E i \in 1..10 : Digits[i] = c
DigitVal(c) == (CHOOSE i \in 1..10 : Digits[i] = c) - 1
AllDigits(s) == s # <<>> /\ \A i \in 1..Len(s) : IsDigit(s[i])

\* int(s) for a string of decimal digits
RECURSIVE DecVal(_)
DecVal(s) ==
    IF s = <<>> THEN 0
    ELSE 10 * DecVal(SubSeq(s, 1, Len(s) - 1)) + DigitVal(s[Len(s)])

\* '%02d' and '%04d'
DigitOf(n) == Digits[(n % 10) + 1]
Fmt2(n) == <<DigitOf(n \div 10), DigitOf(n)>>
Fmt4(n) == <<DigitOf(n \div 1000), DigitOf(n \div 100)>> \o Fmt2(n)

\* str(n) for a natural number
RECURSIVE str_int(_)
str_int(n) ==
    IF n < 10 THEN <<DigitOf(n)>> ELSE str_int(n \div 10) \o <<DigitOf(n)>>

Range(f) == {f[i] : i \in DOMAIN f}

(***************************************************************************)
(* datetime.date, datetime.timedelta(days=1), strptime and strftime        *)
(***************************************************************************)
IsLeap(y) == (y % 4 = 0 /\ y % 100 # 0) \/ y % 400 = 0

DaysIn(y, m) ==
    IF m = 2 THEN (IF IsLeap(y) THEN 29 ELSE 28)
    ELSE IF m \in {4, 6, 9, 11} THEN 30 ELSE 31

IsDate(y, m, d) == y >= 1 /\ m \in 1..12 /\ d >= 1 /\ d <= DaysIn(y, m)

\* a date + timedelta(days=1) that adds to the day without carrying into the
\* month
PlusOneDay_no_carry(dt) == [dt EXCEPT !.d = dt.d + 1]

\* date + datetime.timedelta(days=1)
PlusOneDay(dt) ==
    IF dt.d < DaysIn(dt.y, dt.m) THEN [dt EXCEPT !.d = dt.d + 1]
    ELSE IF dt.m < 12 THEN [y |-> dt.y, m |-> dt.m + 1, d |-> 1]
    ELSE [y |-> dt.y + 1, m |-> 1, d |-> 1]

\* date - datetime.timedelta(days=1)
MinusOneDay(dt) ==
    IF dt.d > 1 THEN [dt EXCEPT !.d = dt.d - 1]
    ELSE IF dt.m > 1
         THEN [y |-> dt.y, m |-> dt.m - 1, d |-> DaysIn(dt.y, dt.m - 1)]
         ELSE [y |-> dt.y - 1, m |-> 12, d |-> 31]

\* date1 >= date2
DateGeq(a, b) ==
    \/ a.y > b.y
    \/ a.y = b.y /\ a.m > b.m
    \/ a.y = b.y /\ a.m = b.m /\ a.d >= b.d

\* str(date), strftime('%Y-%m-%d')
str_date(dt) == Fmt4(dt.y) \o <<"-">> \o Fmt2(dt.m) \o <<"-">> \o Fmt2(dt.d)

\* date.strftime('%Y%m%d')
strftime_Ymd(dt) == Fmt4(dt.y) \o Fmt2(dt.m) \o Fmt2(dt.d)

\* one or two decimal digits, as the directives %m %d %H %M %S accept
OneOrTwoDigits(s) == Len(s) \in {1, 2} /\ AllDigits(s)

NoDate == [ok |-> FALSE, date |-> [y |-> 1, m |-> 1, d |-> 1]]
NoTime == [ok |-> FALSE, hour |-> 0, minute |-> 0, second |-> 0]

\* the date of three numbers, when there is such a date
DateOf(y, m, d) ==
    IF IsDate(y, m, d) THEN [ok |-> TRUE, date |-> [y |-> y, m |-> m, d |-> d]]
    ELSE NoDate

\* the date of the fields of '%Y-%m-%d'
DateOfFields(p) ==
    IF /\ Len(p) = 3
       /\ Len(p[1]) = 4 /\ AllDigits(p[1])
       /\ OneOrTwoDigits(p[2]) /\ OneOrTwoDigits(p[3])
    THEN DateOf(DecVal(p[1]), DecVal(p[2]), DecVal(p[3]))
    ELSE NoDate

\* datetime.strptime(s, '%Y-%m-%d').date(); ok = FALSE models ValueError
strptime_date(s) == DateOfFields(str_split(s, <<"-">>))

\* the time of three numbers, when there is such a time
TimeOf(h, m, s) ==
    IF h <= 23 /\ m <= 59 /\ s <= 61
    THEN [ok |-> TRUE, hour |-> h, minute |-> m, second |-> s]
    ELSE NoTime

\* the time of the fields of '%H:%M'
TimeOfFields(p) ==
    IF Len(p) = 2 /\ OneOrTwoDigits(p[1]) /\ OneOrTwoDigits(p[2])
    THEN TimeOf(DecVal(p[1]), DecVal(p[2]), 0)
    ELSE NoTime

\* datetime.strptime(s, '%H:%M'); ok = FALSE models ValueError
strptime_HM(s) == TimeOfFields(str_split(s, <<":">>))

\* datetime.strftime(t, '%H:%M:%S')
strftime_HMS(t) ==
    Fmt2(t.hour) \o <<":">> \o Fmt2(t.minute) \o <<":">> \o Fmt2(t.second)

\* the time of the fields of '%H:%M:%S'
TimeOfFields3(p) ==
    IF Len(p) = 3 /\ \A i \in 1..3 : OneOrTwoDigits(p[i])
    THEN TimeOf(DecVal(p[1]), DecVal(p[2]), DecVal(p[3]))
    ELSE NoTime

\* a date and a time of day, when both were parsed
DateTimeOf(dp, tp) ==
    [ok |-> dp.ok /\ tp.ok, date |-> dp.date, hour |-> tp.hour,
     minute |-> tp.minute, second |-> tp.second]

DateTimeOfParts(p) ==
    IF Len(p) = 2
    THEN DateTimeOf(strptime_date(p[1]), TimeOfFields3(str_split(p[2], <<":">>)))
    ELSE DateTimeOf(NoDate, NoTime)

\* datetime.strptime(s, '%Y-%m-%d %H:%M:%S'); ok = FALSE models ValueError
strptime_datetime(s) == DateTimeOfParts(str_split(s, <<" ">>))

(***************************************************************************)
(* sorted(): lexicographic order of str by code point                      *)
(***************************************************************************)
\* the characters the model's strings are made of, in code point order
Alphabet == <<"\t", "\n", "\r", " ", "\"", "#", "(", ")", ",", "-", ".">> \o Digits
            \o <<":">> \o UpperLetters \o <<"[", "]", "_">> \o LowerLetters

ord(c) == CHOOSE i \in 1..Len(Alphabet) : Alphabet[i] = c

RECURSIVE str_less(_, _)
str_less(a, b) ==
    IF a = <<>> THEN b # <<>>
    ELSE IF b = <<>> THEN FALSE
    ELSE IF a[1] = b[1] THEN str_less(Tail(a), Tail(b))
    ELSE ord(a[1]) < ord(b[1])

Least(S) == CHOOSE a \in S : \A b \in S \ {a} : str_less(a, b)

\* sorted(S) for a set S of str
RECURSIVE sorted(_)
SortedFrom(S, least) == <<least>> \o sorted(S \ {least})
sorted(S) == IF S = {} THEN <<>> ELSE SortedFrom(S, Least(S))

\* the lines a text file yields when iterated (for line in f), newline kept off
DropLastEmpty(p) == IF p[Len(p)] = <<>> THEN SubSeq(p, 1, Len(p) - 1) ELSE p
FileLines(text) ==
    IF text = <<>> THEN <<>> ELSE DropLastEmpty(str_split(text, <<"\n">>))

(***************************************************************************)
(* target_grab: the day-rollover of the start and end clocks               *)
(***************************************************************************)
\* a rollover that compares the start hour with < 12 instead of <= 12
day_start_before_noon(start_date, x) ==
    IF x.hour < 12 THEN str_date(PlusOneDay(start_date)) ELSE str_date(start_date)

\* lines 230-233: the date of the start timestamp
day_start(start_date, x) ==
    IF x.hour <= 12 THEN str_date(PlusOneDay(start_date)) ELSE str_date(start_date)

\* lines 234-237: the date of the end timestamp
day_end(start_date, xx) ==
    IF xx.hour <= 12 THEN str_date(PlusOneDay(start_date)) ELSE str_date(start_date)

\* lines 226-240 for the parsed clocks x and xx: begin and end
Resolved(start_date, x, xx) ==
    IF ~x.ok \/ ~xx.ok THEN [ok |-> FALSE, begin |-> <<>>, end |-> <<>>]
    ELSE [ok |-> TRUE,
          begin |-> day_start(start_date, x) \o <<" ">> \o strftime_HMS(x),
          end |-> day_end(start_date, xx) \o <<" ">> \o strftime_HMS(xx)]

\* lines 225-240: begin and end, or ValueError (ok = FALSE) on a malformed clock
ResolveTimes(start_date, obs_start, obs_end) ==
    Resolved(start_date, strptime_HM(obs_start), strptime_HM(obs_end))

(***************************************************************************)
(* list_split, json.dumps and float                                        *)
(***************************************************************************)
\* A Python value that json.dump serialises: type "str" (val a string),
\* "float" (whole, frac), "list" (val a sequence of values), "None".
PyStr(s) == [type |-> "str", val |-> s]
PyList(l) == [type |-> "list", val |-> l]
None == [type |-> "None"]

\* json.dumps of a list of str: the text ["a", "b"]. The model's filter
\* alphabet holds no character that json.dumps escapes.
json_dumps(l) ==
    <<"[">> \o str_join(<<",", " ">>,
                        [k \in 1..Len(l) |-> <<"\"">> \o l[k] \o <<"\"">>])
    \o <<"]">>

NoFloat == [ok |-> FALSE, type |-> "float", whole |-> 0, frac |-> <<>>]

\* float(t) for t split at "."
FloatOfParts(t, p) ==
    IF t = <<"n", "a", "n">>
    THEN [ok |-> TRUE, type |-> "float", whole |-> 0, frac |-> t]
    ELSE IF Len(p) = 1 /\ AllDigits(p[1])
    THEN [ok |-> TRUE, type |-> "float", whole |-> DecVal(p[1]), frac |-> <<>>]
    ELSE IF /\ Len(p) = 2
            /\ (p[1] = <<>> \/ AllDigits(p[1]))
            /\ (p[2] = <<>> \/ AllDigits(p[2]))
            /\ (p[1] # <<>> \/ p[2] # <<>>)
    THEN [ok |-> TRUE, type |-> "float", whole |-> DecVal(p[1]), frac |-> p[2]]
    ELSE NoFloat

\* float(t) on the grammar digits[.digits] | .digits | nan; every other
\* string of the model raises ValueError (ok = FALSE)
float(t) == FloatOfParts(t, str_split(t, <<".">>))

\* int(s) as savetxt applies it to the number-of-exposures box
int(s) == IF AllDigits(s) THEN [ok |-> TRUE, val |-> DecVal(s)]
          ELSE [ok |-> FALSE, val |-> 0]

Ha == <<"H", "a">>

\* a list_split that lowers every filter, "Ha" included
filter_value_lowered(i) ==
    IF Len(i) > 1
    THEN PyStr(json_dumps([k \in 1..Len(i) |-> str_lower(i[k])]))
    ELSE PyStr(str_lower(i[1]))

\* line 328 for the list i of the filters
filter_value(i) ==
    IF Len(i) > 1
    THEN PyStr(json_dumps(
             [k \in 1..Len(i) |-> IF i[k] = Ha THEN i[k] ELSE str_lower(i[k])]))
    ELSE IF i[1] = Ha THEN PyStr(i[1]) ELSE PyStr(str_lower(i[1]))

\* list_split(filter_): line 324 and line 328
list_split_filter(text) ==
    filter_value(str_split(str_replace(text, <<" ">>, <<>>), <<",">>))

\* line 326 for the list fl of the results of float
exposure_value(fl) ==
    IF Len(fl) > 1
    THEN IF \A k \in 1..Len(fl) : fl[k].ok
         THEN [ok |-> TRUE, val |-> PyList(fl)]
         ELSE [ok |-> FALSE, val |-> PyList(<<>>)]
    ELSE [ok |-> fl[1].ok, val |-> fl[1]]

FloatEach(i) == [k \in 1..Len(i) |-> float(i[k])]

\* list_split(exposure_time): line 324 and line 326
list_split_exposure(text) ==
    exposure_value(FloatEach(str_split(str_replace(text, <<" ">>, <<>>), <<",">>)))

(***************************************************************************)
(* check_toi: the satellite catalog                                        *)
(***************************************************************************)
\* lines 133-136 for one stripped line: the names added to SATELLITES
names_of(line) ==
    IF "(" \in Range(line)
    THEN {str_upper(line), str_upper(str_strip(str_split(line, <<"(">>)[1]))}
    ELSE {str_upper(line)}

\* lines 130-136 on the lines of the TLE feed; a blank line raises
\* IndexError at line[0] (ok = FALSE)
SatelliteIndex(lines) ==
    [ok |-> \A k \in 1..Len(lines) : lines[k] # <<>>,
     set |-> UNION {names_of(str_strip(lines[k])) :
                      k \in {n \in 1..Len(lines) :
                               lines[n] # <<>> /\ lines[n][1] \notin {"1", "2"}}}]

\* line 139: the text written to satellites.txt
SatellitesText(S) == str_join(<<"\n">>, sorted(S))

\* line 123: the set read back from satellites.txt
SatellitesFromText(text) == {str_strip(l) : l \in Range(FileLines(text))}

(***************************************************************************)
(* Bounds of the model                                                     *)
(***************************************************************************)
\* the clock runs from hour 0 to hour MaxTime
MaxTime == 14
\* the program is started at most MaxRuns times
MaxRuns == 2
\* the user changes a field, or leaves the program idle, at most MaxEdits
\* times
MaxEdits == 1
\* the user presses a button other than Quit at most MaxPresses times
MaxPresses == 3
\* the steps by which the clock advances, in hours
TickSteps == {12, 13}

(***************************************************************************)
(* Program constants                                                       *)
(***************************************************************************)
\* datetime.timedelta(hours=12), lines 121 and 210
TTL_HOURS == 12
\* num_exposures = 100000, line 244
num_exposures == 100000

(***************************************************************************)
(* The remote resources the model draws its responses from                 *)
(***************************************************************************)
ISS == <<"I", "S", "S">>
iss == <<"i", "s", "s">>
HST == <<"H", "S", "T">>
CCD == "CCD"
NIR == "NIR"
nan == <<"n", "a", "n">>
NaN == <<"N", "a", "N">>
TOI == <<"T", "O", "I">>

Row(NoD, Target, Start, End, Filter, Exp, Cam, Sat, Mode) ==
    [NoD |-> NoD, Target |-> Target, Start |-> Start, End |-> End,
     Filter |-> Filter, Exp |-> Exp, Camera |-> Cam,
     SatelliteTracking |-> Sat, TrackingMode |-> Mode]

AllColumns == {"NoD", "Target", "Start", "End", "Filter", "Exp", "Camera",
               "Satellite Tracking", "Tracking Mode"}

\* a past night, a satellite pass at noon and a transit across midnight
Sheet1 ==
    [columns |-> AllColumns,
     rows |-> << Row(<<"2", "0", "2", "4", "-", "0", "5", "-", "3", "1">>, <<"T", "O", "I", " ", "1", "2", ".", "0", "1">>, <<"2", "2", ":", "0", "0">>, <<"2", "3", ":", "0", "0">>,
                     <<"v">>, <<"3", "0", "s">>, CCD, 0, 0),
                 Row(<<"2", "0", "2", "4", "-", "0", "6", "-", "0", "1">>, ISS, <<"1", "2", ":", "3", "0">>, <<"1", "3", ":", "1", "0">>,
                     <<"H", "a", ",", " ", "v", ",", " ", "R">>, <<"3", "0", "s", ",", "6", "0", "s">>, CCD, 1, 2),
                 Row(<<"2", "0", "2", "4", "-", "0", "6", "-", "0", "1">>, <<"T", "O", "I", " ", "1", "2", ".", "0", "1">>, <<"2", "3", ":", "0", "0">>, <<"0", "5", ":", "0", "0">>,
                     <<"v">>, <<"3", "0", "s">>, NIR, 0, 0) >>]

\* a malformed start clock in the second of three rows, at the end of a month
Sheet2 ==
    [columns |-> AllColumns,
     rows |-> << Row(<<"2", "0", "2", "4", "-", "0", "6", "-", "3", "0">>, HST, <<"0", "0", ":", "3", "0">>, <<"0", "4", ":", "0", "0">>,
                     <<"R">>, <<"1", "0", "s">>, CCD, 1, 1),
                 Row(<<"2", "0", "2", "4", "-", "0", "6", "-", "3", "0">>, <<"T", "O", "I", " ", "1", "2", ".", "0", "1">>, <<"2", "5", ":", "0", "0">>, <<"0", "5", ":", "0", "0">>,
                     <<"v">>, <<"3", "0", "s">>, CCD, 0, 0),
                 Row(<<"2", "0", "2", "4", "-", "0", "6", "-", "3", "0">>, <<"T", "O", "I", " ", "1", "2", ".", "0", "1">>, <<"2", "2", ":", "0", "0">>, <<"2", "3", ":", "3", "0">>,
                     <<"v">>, <<"3", "0", "s">>, CCD, 0, 0) >>]

\* a sheet without the Camera and Tracking Mode columns
Sheet3 ==
    [columns |-> AllColumns \ {"Camera", "Tracking Mode"},
     rows |-> << Row(<<"2", "0", "2", "4", "-", "0", "6", "-", "0", "1">>, <<"T", "O", "I", " ", "1", "2", ".", "0", "1">>, <<"2", "2", ":", "0", "0">>, <<"2", "3", ":", "3", "0">>,
                     <<"v">>, <<"3", "0", "s">>, CCD, 0, 0) >>]

Sheets == {Sheet1, Sheet2, Sheet3}

\* the TLE feed, as the lines of tles.text
Feed1 == << <<"I", "S", "S", " ", "(", "Z", "A", "R", "Y", "A", ")">>, <<"1", " ", "2", "5", "5", "4", "4", "U">>, <<"2", " ", "2", "5", "5", "4", "4", " ", "5", "1">> >>
Feed2 == << <<"H", "S", "T">>, <<"1", " ", "2", "0", "5", "8", "0", "U">>, <<"2", " ", "2", "0", "5", "8", "0", " ", "2", "8">> >>
Feeds == {Feed1, Feed2}

\* the ephemeris table
Chart1 == << [TOI |-> <<"1", "2", ".", "0", "1">>, RA |-> "10:00:00", Dec |-> "+20:00:00"] >>
Charts == {Chart1}

\* the date of hour 0 of the model's clock
Day0 == [y |-> 2024, m |-> 6, d |-> 1]

(***************************************************************************)
(* The state                                                               *)
(*   now      the wall clock, in hours since 00:00 of Day0                 *)
(*   fs       toi_info/: google.csv, satellites.txt, info_chart.csv        *)
(*   tickets  the ticket files of the root directory, by file name         *)
(*   folders  the date folders, each a directory of ticket files           *)
(*   running  whether the program's main loop is running                   *)
(*   runs     how many times the program has been started                  *)
(*   presses  how many buttons the user has pressed                        *)
(*   edits    how many fields the user has changed                         *)
(*   app      the program's globals and widgets (meaningful while running) *)
(*   log      what the last handler did: requests, builds, file writes     *)
(*   probe    input and output of a pure function under SpecPure           *)
(***************************************************************************)
VARIABLES now, fs, tickets, folders, running, runs, presses, edits, app, log,
          probe

vars == <<now, fs, tickets, folders, running, runs, presses, edits, app, log,
          probe>>

NoFile == [exists |-> FALSE, content |-> <<>>, mtime |-> 0]
File(c, t) == [exists |-> TRUE, content |-> c, mtime |-> t]

\* a response of requests.get: ok = FALSE is a raised exception or a timeout
Raised == [ok |-> FALSE, body |-> <<>>]
Responses(S) == {Raised} \cup {[ok |-> TRUE, body |-> b] : b \in S}

ObservationList == <<"O", "b", "s", "e", "r", "v", "a", "t", "i", "o", "n", " ", "L", "i", "s", "t">>

AppOff ==
    [SATELLITES |-> {}, toi_list |-> <<>>, selection |-> <<>>,
     name |-> <<>>, ra |-> "", dec |-> "", start_time |-> <<>>,
     end_time |-> <<>>, filter_ |-> <<>>, n_exposures |-> <<>>,
     exposure_time |-> <<>>, camera |-> "", satellite_tracking |-> 0,
     satellite_tracking_mode |-> 0, self_guide |-> 0, guide |-> 0,
     cycle_filter |-> 0, initial_focus |-> 0, dialog |-> None,
     dialog_2 |-> None, auto_make_folders |-> "normal", threads |-> <<>>]

\* the log of a handler that has done nothing yet
EmptyLog(op) ==
    [op |-> op, exc |-> "none", loads |-> <<>>, builds |-> <<>>,
     writes |-> <<>>, removed |-> {}, archived |-> {}, done |-> <<>>,
     started |-> <<>>, joined |-> <<>>, alive |-> <<>>]

\* The state a handler works on, and its result.
Machine == [fs |-> fs, tickets |-> tickets, folders |-> folders, app |-> app,
            log |-> log]

\* no exception has been raised
Ok(m) == m.log.exc = "none"

Raise(m, e) == [m EXCEPT !.log.exc = e]

\* one load of a cached resource: whether a local copy existed, its age, how
\* many requests the load issued and whether the request raised
LoadEvent(res, f, t, requests, raised) ==
    [res |-> res, existed |-> f.exists, age |-> IF f.exists THEN t - f.mtime ELSE 0,
     requests |-> requests, raised |-> raised]

Logged(m, e) == [m EXCEPT !.log.loads = Append(@, e)]

\* datetime.date.today() and datetime.datetime.now().hour at clock t
RECURSIVE PlusDays(_, _)
PlusDays(dt, n) == IF n = 0 THEN dt ELSE PlusDays(PlusOneDay(dt), n - 1)
today(t) == PlusDays(Day0, t \div 24)
hour_now(t) == t % 24

\* dst_check, lines 292-304; tm_isdst is taken to be 1 from April to October
tm_isdst(t) == IF today(t).m \in 4..10 THEN 1 ELSE 0
dst_check(t) == IF tm_isdst(t) = 1 THEN <<"-", "0", "4", ":", "0", "0">> ELSE <<"-", "0", "5", ":", "0", "0">>

(***************************************************************************)
(* DialogThread, lines 144-171                                             *)
(***************************************************************************)
\* __init__ starts the thread; arg is the text the message is built from
DialogThread(title, arg) ==
    [type |-> "DialogThread", title |-> title, arg |-> arg, stop |-> FALSE,
     alive |-> TRUE]

\* join: stop is set, the run loop sees it and the thread ends
join(d) == [d EXCEPT !.stop = TRUE, !.alive = FALSE]

\* line 150: the thread d is started and is one of the process's threads
Launched(m, d) ==
    [m EXCEPT !.log.started = Append(@, d), !.app.threads = Append(@, d)]

\* the threads ts without the one at position k
cut_at(ts, k) == SubSeq(ts, 1, k - 1) \o SubSeq(ts, k + 1, Len(ts))

\* line 171: the threads ts when the thread d, the last one started if several
\* are equal, has ended
ended(ts, d) ==
    IF \E k \in 1..Len(ts) : ts[k] = d
    THEN cut_at(ts, CHOOSE k \in 1..Len(ts) :
                        ts[k] = d /\ \A j \in (k + 1)..Len(ts) : ts[j] # d)
    ELSE ts

\* lines 169-171: the thread d is told to stop and has ended
Joined(m, d) ==
    [m EXCEPT !.log.joined = Append(@, join(d)), !.app.threads = ended(@, d)]

(***************************************************************************)
(* check_toi, lines 88-141                                                 *)
(***************************************************************************)
\* line 121: the cached satellite list is used
satellites_cached(f, t) == f.exists /\ t - f.mtime < TTL_HOURS

\* a check_toi that opens google.csv for writing before it requests the sheet
fetch_google_truncating(m, t, resp) ==
    IF ~resp.ok
    THEN Raise(Logged([m EXCEPT !.fs.google =
                          File([columns |-> {}, rows |-> <<>>], t)],
                      LoadEvent("google", m.fs.google, t, 1, TRUE)),
               "RequestException")
    ELSE [Logged(m, LoadEvent("google", m.fs.google, t, 1, FALSE))
             EXCEPT !.fs.google = File(resp.body, t)]

\* lines 102-104: the schedule sheet is requested, then written
fetch_google(m, t, resp) ==
    IF ~resp.ok
    THEN Raise(Logged(m, LoadEvent("google", m.fs.google, t, 1, TRUE)),
               "RequestException")
    ELSE [Logged(m, LoadEvent("google", m.fs.google, t, 1, FALSE))
             EXCEPT !.fs.google = File(resp.body, t)]

\* lines 130-139: SATELLITES is built from the feed and written to the file
store_satellites(m, t, idx) ==
    IF ~idx.ok THEN Raise(m, "IndexError")
    ELSE [m EXCEPT !.app.SATELLITES = idx.set,
                   !.fs.satellites = File(SatellitesText(idx.set), t)]

\* line 127: the please-wait dialog of the satellite download
satellite_wait == DialogThread("Downloading satellite info", "")

\* line 141: the dialog is joined when lines 128-139 have not raised
joined_after(m, d) == IF Ok(m) THEN Joined(m, d) ELSE m

\* lines 125-141: the dialog is started, the feed is requested, then indexed
\* and written, and the dialog is joined
fetch_satellites(m, t, resp) ==
    IF ~resp.ok
    THEN Raise(Logged(Launched(m, satellite_wait),
                      LoadEvent("satellites", m.fs.satellites, t, 1, TRUE)),
               "RequestException")
    ELSE joined_after(
             store_satellites(
                 Logged(Launched(m, satellite_wait),
                        LoadEvent("satellites", m.fs.satellites, t, 1, FALSE)),
                 t, SatelliteIndex(resp.body)),
             satellite_wait)

\* lines 117-141: the satellite catalog, from the file or from the feed
load_satellites(m, t, resp) ==
    IF ~Ok(m) THEN m
    ELSE IF satellites_cached(m.fs.satellites, t)
    THEN [Logged(m, LoadEvent("satellites", m.fs.satellites, t, 0, FALSE))
             EXCEPT !.app.SATELLITES = SatellitesFromText(m.fs.satellites.content)]
    ELSE fetch_satellites(m, t, resp)

check_toi(m, t, sheetResp, tleResp) ==
    load_satellites(fetch_google(m, t, sheetResp), t, tleResp)

(***************************************************************************)
(* create_list, lines 261-289                                              *)
(***************************************************************************)
\* lines 279-280, 206-208: the file and display form of a TOI name
normalized(target) ==
    IF startswith(target, TOI)
    THEN str_replace(str_replace(target, <<" ">>, <<>>), <<".">>, <<"-">>)
    ELSE target

NoEntry == [exc |-> "none", entry |-> <<>>]

\* lines 285-288: the entry of row x (counted from 0)
display_entry(sheet, x, r, target, row_date) ==
    IF "Satellite Tracking" \notin sheet.columns
    THEN [exc |-> "KeyError", entry |-> <<>>]
    ELSE IF r.SatelliteTracking # 0 /\ "Tracking Mode" \notin sheet.columns
    THEN [exc |-> "KeyError", entry |-> <<>>]
    ELSE [exc |-> "none",
          entry |-> << str_date(row_date) \o <<":", " ">> \o target \o <<"_">>
                       \o r.Start
                       \o (IF r.SatelliteTracking # 0
                           THEN <<"_", "M", "o", "d", "e">> \o str_int(r.TrackingMode) ELSE <<>>)
                       \o <<"_">> \o r.Exp \o <<"_">> \o r.Filter \o <<"_", "#">>
                       \o str_int(x) >>]

\* lines 283-284: the row is listed when its night is today or later
dated_entry(sheet, x, r, target, row_date, current_date) ==
    IF ~row_date.ok THEN [exc |-> "ValueError", entry |-> <<>>]
    ELSE IF ~(DateGeq(row_date.date, current_date) /\ target # NaN) THEN NoEntry
    ELSE display_entry(sheet, x, r, target, row_date.date)

\* lines 278-282: rows without a target or a night are passed over
named_entry(sheet, x, r, target, current_date) ==
    IF target = nan \/ r.NoD = nan THEN NoEntry
    ELSE dated_entry(sheet, x, r, target, strptime_date(r.NoD), current_date)

\* lines 278-288 for row x (counted from 0): the entry appended, if any
list_entry(sheet, x, current_date) ==
    named_entry(sheet, x, sheet.rows[x + 1], normalized(sheet.rows[x + 1].Target),
                current_date)

RECURSIVE create_list_from(_, _, _, _)
\* a create_list that stops after 11 entries
create_list_capped(sheet, x, current_date, acc, e) ==
    IF e.exc # "none" THEN [exc |-> e.exc, list |-> acc]
    ELSE IF Len(acc) >= 11 THEN [exc |-> "none", list |-> acc]
    ELSE create_list_from(sheet, x + 1, current_date, acc \o e.entry)

create_list_with(sheet, x, current_date, acc, e) ==
    IF e.exc # "none" THEN [exc |-> e.exc, list |-> acc]
    ELSE create_list_from(sheet, x + 1, current_date, acc \o e.entry)

\* the loop of line 277 from row x on
create_list_from(sheet, x, current_date, acc) ==
    IF x >= Len(sheet.rows) THEN [exc |-> "none", list |-> acc]
    ELSE create_list_with(sheet, x, current_date, acc,
                          list_entry(sheet, x, current_date))

create_list(sheet, current_date) == create_list_from(sheet, 0, current_date, <<>>)

(***************************************************************************)
(* create_list of Observation_ticket_creator.pyw, lines 257-281            *)
(***************************************************************************)
\* num < 11, line 275
max_listed == 11

RECURSIVE create_list_pyw_from(_, _, _, _)

\* lines 277-280 for the parsed night of row x
pyw_dated(sheet, x, current_date, acc, row_date) ==
    IF ~row_date.ok THEN [exc |-> "ValueError", list |-> acc]
    ELSE IF DateGeq(row_date.date, current_date)
            /\ sheet.rows[x + 1].Target # NaN
    THEN create_list_pyw_from(sheet, x + 1, current_date,
             Append(acc, str_date(row_date.date) \o <<":", " ">>
                         \o sheet.rows[x + 1].Target))
    ELSE create_list_pyw_from(sheet, x + 1, current_date, acc)

\* the loop of line 274 from row x on; num is the length of the list
create_list_pyw_from(sheet, x, current_date, acc) ==
    IF x >= Len(sheet.rows) THEN [exc |-> "none", list |-> acc]
    ELSE IF /\ Len(acc) < max_listed
            /\ sheet.rows[x + 1].Target # nan
            /\ sheet.rows[x + 1].NoD # nan
    THEN pyw_dated(sheet, x, current_date, acc,
                   strptime_date(sheet.rows[x + 1].NoD))
    ELSE create_list_pyw_from(sheet, x + 1, current_date, acc)

create_list_pyw(sheet, current_date) ==
    create_list_pyw_from(sheet, 0, current_date, <<>>)

(***************************************************************************)
(* clear_box, lines 77-85, and target_grab, lines 173-258                  *)
(***************************************************************************)
clear_box(a) ==
    [a EXCEPT !.name = <<>>, !.ra = "", !.dec = "", !.start_time = <<>>,
              !.end_time = <<>>, !.filter_ = <<>>, !.n_exposures = <<>>,
              !.exposure_time = <<>>]

\* an expiry test with the comparison turned round
info_chart_expired_inverted(f, t) == ~f.exists \/ t - f.mtime < TTL_HOURS

\* line 210: the ephemeris table is requested again
info_chart_expired(f, t) == ~f.exists \/ t - f.mtime > TTL_HOURS

\* line 211: the please-wait dialog of the ephemeris download
info_chart_wait == DialogThread("Downloading TOI info", "")

\* lines 211-215: the dialog is started, the ephemeris table is requested,
\* then written, and the dialog is joined
fetch_info_chart(m, t, resp) ==
    IF ~resp.ok
    THEN Raise(Logged(Launched(m, info_chart_wait),
                      LoadEvent("info_chart", m.fs.info_chart, t, 1, TRUE)),
               "RequestException")
    ELSE Joined([Logged(Launched(m, info_chart_wait),
                        LoadEvent("info_chart", m.fs.info_chart, t, 1, FALSE))
                    EXCEPT !.fs.info_chart = File(resp.body, t)],
                info_chart_wait)

\* lines 209-216: the ephemeris table, from the file or from the site
load_info_chart(m, t, resp) ==
    IF info_chart_expired(m.fs.info_chart, t)
    THEN fetch_info_chart(m, t, resp)
    ELSE Logged(m, LoadEvent("info_chart", m.fs.info_chart, t, 0, FALSE))

\* lines 217-223: str(ra_coord), str(dec_coord) of the first entry for toi
coordinates(info_csv, toi) ==
    LET hits == {y \in 1..Len(info_csv) : info_csv[y].TOI = toi} IN
    IF hits = {} THEN [ra |-> "None", dec |-> "None"]
    ELSE LET y == CHOOSE h \in hits : \A g \in hits : h <= g
         IN [ra |-> info_csv[y].RA, dec |-> info_csv[y].Dec]

\* [-1][1:] of the pieces of the target
LastTail(pieces) ==
    IF pieces[Len(pieces)] = <<>> THEN <<>> ELSE Tail(pieces[Len(pieces)])

\* line 190: int(target.split('_')[-1][1:])
row_index(target) == int(LastTail(str_split(target, <<"_">>)))

\* lines 205-207: the identifier looked up in the ephemeris table
toi_of(target_name) ==
    IF startswith(target_name, TOI)
    THEN str_replace(str_replace(target_name, <<" ">>, <<>>), TOI, <<>>)
    ELSE target_name

\* lines 256-258: the tracking widgets; a column the sheet lacks leaves its
\* variable unbound
set_tracking(m, r, columns) ==
    IF "Satellite Tracking" \notin columns THEN Raise(m, "UnboundLocalError")
    ELSE IF "Tracking Mode" \notin columns
    THEN Raise([m EXCEPT !.app.satellite_tracking = r.SatelliteTracking],
               "UnboundLocalError")
    ELSE [m EXCEPT !.app.satellite_tracking = r.SatelliteTracking,
                   !.app.satellite_tracking_mode = r.TrackingMode,
                   !.app.self_guide = IF r.SatelliteTracking # 0 THEN 0 ELSE 1]

\* lines 242-258, with the row's cells and the resolved values
fill_boxes(m, r, columns, target_name, coord, times) ==
    set_tracking(
        [m EXCEPT !.app.name = target_name,
                  !.app.ra = coord.ra,
                  !.app.dec = coord.dec,
                  !.app.start_time = times.begin,
                  !.app.end_time = times.end,
                  !.app.filter_ = r.Filter,
                  !.app.n_exposures = str_int(num_exposures),
                  !.app.exposure_time = str_replace(r.Exp, <<"s">>, <<>>),
                  !.app.camera = IF "Camera" \in columns THEN r.Camera ELSE CCD],
        r, columns)

\* lines 225-258 once the clocks are parsed
grab_times(m, r, times) ==
    IF ~times.ok THEN Raise(m, "ValueError")
    ELSE fill_boxes(m, r, m.fs.google.content.columns, normalized(r.Target),
                    coordinates(m.fs.info_chart.content, toi_of(r.Target)),
                    times)

\* lines 216-258 once the ephemeris table is loaded
grab_loaded(m, r, start_date) ==
    IF ~Ok(m) THEN m
    ELSE grab_times(m, r, ResolveTimes(start_date, r.Start, r.End))

\* lines 191-258 for row x of the sheet
grab_row(m, x, start_date, t, infoResp) ==
    IF ~x.ok THEN Raise(m, "ValueError")
    ELSE IF x.val >= Len(m.fs.google.content.rows) THEN Raise(m, "KeyError")
    ELSE grab_loaded(load_info_chart(m, t, infoResp),
                     m.fs.google.content.rows[x.val + 1], start_date)

\* lines 186-258 for the pieces of the selection
grab_selection(m, input_info, start_date, t, infoResp) ==
    IF ~start_date.ok THEN Raise(m, "ValueError")
    ELSE IF Len(input_info) < 2 THEN Raise(m, "IndexError")
    ELSE IF ~m.fs.google.exists THEN Raise(m, "FileNotFoundError")
    ELSE grab_row(m, row_index(input_info[2]), start_date.date, t, infoResp)

grab_split(m, input_info, t, infoResp) ==
    grab_selection(m, input_info, strptime_date(input_info[1]), t, infoResp)

target_grab(m, t, infoResp) ==
    IF m.app.selection = ObservationList THEN m
    ELSE grab_split([m EXCEPT !.app = clear_box(m.app)],
                    str_split(m.app.selection, <<":", " ">>), t, infoResp)

(***************************************************************************)
(* savetxt, lines 333-381                                                  *)
(***************************************************************************)
\* a catalog lookup of the name as typed, without upper()
satellite_missing_exact(a) ==
    a.satellite_tracking # 0 /\ a.name \notin a.SATELLITES

\* line 351: satellite tracking is requested and the name is not in the catalog
satellite_missing(a) ==
    a.satellite_tracking # 0 /\ str_upper(a.name) \notin a.SATELLITES

\* lines 380, 406: the file name of the ticket called target_name
file_name(target_name) ==
    str_replace(target_name, <<":">>, <<>>) \o <<".", "j", "s", "o", "n">>

\* lines 406-407: the ticket's file name for an entry of the list
ticket_file(target) == file_name(str_split(target, <<":", " ">>)[2])

\* lines 359-378: observation_ticket["details"]
details(a, dst, i, j, num) ==
    [name |-> a.name,
     ra |-> IF a.ra = "None" THEN None ELSE [type |-> "str", val |-> a.ra],
     dec |-> IF a.dec = "None" THEN None ELSE [type |-> "str", val |-> a.dec],
     start_time |-> a.start_time \o dst,
     end_time |-> a.end_time \o dst,
     filter |-> i,
     num |-> num,
     exp_time |-> j,
     camera |-> a.camera,
     self_guide |-> a.self_guide # 0,
     guide |-> a.guide # 0,
     cycle_filter |-> a.cycle_filter # 0,
     initial_focus |-> a.initial_focus # 0,
     satellite_tracking |-> a.satellite_tracking # 0,
     satellite_tracking_mode |-> a.satellite_tracking_mode]

\* lines 380-381: open(path, 'w+') and json.dump create or overwrite the file
write_ticket(m, fname, ticket) ==
    [m EXCEPT !.tickets = (fname :> ticket) @@ m.tickets,
              !.log.writes = Append(@, fname)]

\* lines 352-354: the error dialog is started unless one is up
report_missing(m) ==
    IF m.app.dialog = None
    THEN [Launched(m, DialogThread("Error: Satellite not found", m.app.name))
             EXCEPT !.app.dialog =
                 DialogThread("Error: Satellite not found", m.app.name)]
    ELSE m

\* a savetxt that leaves the error dialog up
end_dialog_never(m) == m

\* lines 355-357: the error dialog, if one is up, is joined and forgotten
end_dialog(m) ==
    IF m.app.dialog # None
    THEN [Joined(m, m.app.dialog) EXCEPT !.app.dialog = None]
    ELSE m

\* lines 359-381 with the values of the boxes
build_ticket(m, t, i, j, num, pieces) ==
    IF ~num.ok THEN Raise(m, "ValueError")
    ELSE IF Len(pieces) < 2 THEN Raise(m, "IndexError")
    ELSE write_ticket(m, file_name(pieces[2]),
                      details(m.app, dst_check(t), i, j, num.val))

\* lines 351-381 once list_split has returned i and j
savetxt_split(m, t, i, j) ==
    IF ~j.ok THEN Raise(m, "ValueError")
    ELSE IF satellite_missing(m.app) THEN report_missing(m)
    ELSE build_ticket(end_dialog(m), t, i, j.val, int(m.app.n_exposures),
                      str_split(m.app.selection, <<":", " ">>))

savetxt_body(m, t) ==
    savetxt_split(m, t, list_split_filter(m.app.filter_),
                  list_split_exposure(m.app.exposure_time))

\* the build r of the state m, recorded in the log: the fields it read,
\* the error dialog before and after, and whether it wrote a file
recorded(m, r) ==
    [r EXCEPT !.log.builds = Append(@,
        [selection |-> m.app.selection, name |-> m.app.name,
         satellite_tracking |-> m.app.satellite_tracking,
         exposure_time |-> m.app.exposure_time,
         n_exposures |-> m.app.n_exposures,
         filter_ |-> m.app.filter_,
         catalog |-> m.app.SATELLITES,
         dialog_before |-> m.app.dialog,
         dialog_after |-> r.app.dialog,
         exc |-> r.log.exc,
         wrote |-> Len(r.log.writes) > Len(m.log.writes),
         files_same |-> r.tickets = m.tickets /\ r.folders = m.folders])]

savetxt(m, t) == recorded(m, savetxt_body(m, t))

(***************************************************************************)
(* save_all, lines 384-390                                                 *)
(***************************************************************************)
RECURSIVE save_all_from(_, _, _, _)

\* line 390 and the next turn of the loop; an exception leaves the loop
save_all_saved(m, k, t, infoResp) ==
    IF ~Ok(m) THEN m
    ELSE save_all_from([m EXCEPT !.log.done = Append(@, m.app.selection)],
                       k + 1, t, infoResp)

\* line 389
save_all_grabbed(m, k, t, infoResp) ==
    IF ~Ok(m) THEN m ELSE save_all_saved(savetxt(m, t), k, t, infoResp)

\* the loop of line 386 from entry k of toi_list on
save_all_from(m, k, t, infoResp) ==
    IF k > Len(m.app.toi_list) THEN m
    ELSE save_all_grabbed(
             target_grab([m EXCEPT !.app.selection = m.app.toi_list[k]],
                         t, infoResp),
             k, t, infoResp)

save_all(m, t, infoResp) == save_all_from(m, 2, t, infoResp)

(***************************************************************************)
(* save_all_auto_folders, lines 394-435                                    *)
(***************************************************************************)
\* lines 411-413: the folder named after the ticket's start time
folder_of(start_time) ==
    IF start_time.hour < 12
    THEN strftime_Ymd(MinusOneDay(start_time.date))
    ELSE strftime_Ymd(start_time.date)

\* lines 415-416: the folder is made unless it exists
make_folder(m, folder_name) ==
    IF folder_name \in DOMAIN m.folders THEN m
    ELSE [m EXCEPT !.folders = (folder_name :> <<>>) @@ @]

\* the root directory without the file fname
without(files, fname) == [n \in DOMAIN files \ {fname} |-> files[n]]

\* the file of the root directory that is moved or removed
item_of(m, fname, folder_name) ==
    [name |-> fname, folder |-> folder_name, content |-> m.tickets[fname],
     target |-> m.app.selection]

\* an archive step that moves the new file over the one in the folder
move_or_replace(m, fname, folder_name) ==
    [m EXCEPT !.folders[folder_name] = (fname :> m.tickets[fname]) @@ @,
              !.tickets = without(@, fname),
              !.log.archived = @ \cup {item_of(m, fname, folder_name)}]

\* lines 417-420: the file goes to the folder unless the name is taken there
move_or_remove(m, fname, folder_name) ==
    IF fname \notin DOMAIN m.folders[folder_name]
    THEN [m EXCEPT !.folders[folder_name] = (fname :> m.tickets[fname]) @@ @,
                   !.tickets = without(@, fname),
                   !.log.archived = @ \cup {item_of(m, fname, folder_name)}]
    ELSE [m EXCEPT !.tickets = without(@, fname),
                   !.log.removed = @ \cup {item_of(m, fname, folder_name)}]

\* lines 414-422 for the folder's name
archive_into(m, fname, folder_name) ==
    [move_or_remove(make_folder(m, folder_name), fname, folder_name)
        EXCEPT !.app.auto_make_folders = "disabled"]

\* lines 411-422 for the parsed start time
archive_at(m, fname, start_time) ==
    IF ~start_time.ok THEN Raise(m, "ValueError")
    ELSE archive_into(m, fname, folder_of(start_time))

\* lines 408-422 for the ticket's file
archive_file(m, fname, t) ==
    IF fname \notin DOMAIN m.tickets THEN Raise(m, "FileNotFoundError")
    ELSE archive_at(m, fname,
                    strptime_datetime(str_replace(m.tickets[fname].start_time,
                                                  dst_check(t), <<>>)))

\* lines 405-422 for one entry of the list, after target_grab and savetxt
archive(m, target, t) == archive_file(m, ticket_file(target), t)

RECURSIVE save_all_auto_folders_from(_, _, _, _)

\* line 421 and the next turn of the loop; an exception leaves the loop
auto_folders_archived(m, k, t, infoResp) ==
    IF ~Ok(m) THEN m
    ELSE save_all_auto_folders_from(
             [m EXCEPT !.log.done = Append(@, m.app.selection)],
             k + 1, t, infoResp)

\* lines 405-420
auto_folders_saved(m, k, t, infoResp) ==
    IF ~Ok(m) THEN m
    ELSE auto_folders_archived(archive(m, m.app.toi_list[k], t), k, t, infoResp)

\* line 404
auto_folders_grabbed(m, k, t, infoResp) ==
    IF ~Ok(m) THEN m ELSE auto_folders_saved(savetxt(m, t), k, t, infoResp)

\* the loop of line 401 from entry k of toi_list on
save_all_auto_folders_from(m, k, t, infoResp) ==
    IF k > Len(m.app.toi_list) THEN m
    ELSE auto_folders_grabbed(
             target_grab([m EXCEPT !.app.selection = m.app.toi_list[k]],
                         t, infoResp),
             k, t, infoResp)

\* line 424: the date of tonight's folder
tonight(t) == IF hour_now(t) >= 12 THEN today(t) ELSE MinusOneDay(today(t))

\* line 428: the dialog is started and kept in dialog_2
started_dialog_2(m, d) == [Launched(m, d) EXCEPT !.app.dialog_2 = d]

\* lines 424-435: the command is put on the clipboard and shown
show_command(m, t) ==
    IF ~Ok(m) THEN m
    ELSE started_dialog_2(m, DialogThread("Saved all targets into folders",
                                          strftime_Ymd(tonight(t))))

save_all_auto_folders(m, t, infoResp) ==
    show_command(save_all_auto_folders_from(m, 2, t, infoResp), t)

(***************************************************************************)
(* The program's run: the module-level script, lines 438-530, and the      *)
(* buttons of the window                                                   *)
(***************************************************************************)
ProbeIdle == [fn |-> "none", arg |-> <<>>, done |-> TRUE, out |-> <<>>]

\* The files and the process before the program is first started.
Fresh ==
    /\ now = 0
    /\ fs = [google |-> NoFile, satellites |-> NoFile, info_chart |-> NoFile]
    /\ tickets = <<>>
    /\ folders = <<>>
    /\ running = FALSE
    /\ runs = 0
    /\ presses = 0
    /\ edits = 0
    /\ app = AppOff
    /\ log = EmptyLog("init")

Init == Fresh /\ probe = ProbeIdle

\* the state a handler starts from, with a fresh log
Begin(op) == [Machine EXCEPT !.log = EmptyLog(op)]

\* the handler's result becomes the state
Commit(m) ==
    /\ fs' = m.fs
    /\ tickets' = m.tickets
    /\ folders' = m.folders
    /\ app' = m.app
    /\ log' = m.log

\* lines 448-489: the widgets and the first target_grab
startup_listed(m, t, lst, infoResp) ==
    IF lst.exc # "none" THEN Raise(m, lst.exc)
    ELSE IF lst.list = <<>> THEN Raise(m, "SystemExit")
    ELSE target_grab([m EXCEPT !.app.initial_focus = 1,
                               !.app.selection = lst.list[1],
                               !.app.toi_list = <<ObservationList>> \o lst.list],
                     t, infoResp)

\* line 446
startup_checked(m, t, infoResp) ==
    IF ~Ok(m) THEN m
    ELSE startup_listed(m, t, create_list(m.fs.google.content, today(t)),
                        infoResp)

\* lines 445-489: check_toi, create_list, the widgets, the first target_grab
startup(m, t, sheetResp, tleResp, infoResp) ==
    startup_checked(check_toi(m, t, sheetResp, tleResp), t, infoResp)

\* the script has run to the main loop, or has ended the process
Started(m) ==
    /\ running' = Ok(m)
    /\ Commit(IF Ok(m) THEN m ELSE [m EXCEPT !.app = AppOff])

\* The program is started. An exception of the script ends the process, as
\* does closing the window that reports an empty list.
Start ==
    /\ ~running
    /\ runs < MaxRuns
    /\ \E sheetResp \in Responses(Sheets), tleResp \in Responses(Feeds),
          infoResp \in Responses(Charts) :
         Started(startup([Begin("start") EXCEPT !.app = AppOff], now,
                         sheetResp, tleResp, infoResp))
    /\ runs' = runs + 1
    /\ UNCHANGED <<now, presses, edits, probe>>

\* a button of the window is pressed and its handler runs to its end
Press(m) ==
    /\ running
    /\ presses < MaxPresses
    /\ presses' = presses + 1
    /\ Commit(m)
    /\ UNCHANGED <<now, running, runs, edits, probe>>

\* the Select button: target_grab
Select ==
    \E infoResp \in Responses(Charts) :
        Press(target_grab(Begin("select"), now, infoResp))

\* the Apply button: savetxt
Apply == Press(savetxt(Begin("apply"), now))

\* the Clear button: clear_box
Clear == Press([Begin("clear") EXCEPT !.app = clear_box(app)])

\* the Save All button
SaveAll ==
    \E infoResp \in Responses(Charts) :
        Press(save_all(Begin("save_all"), now, infoResp))

\* the Save All into Folders by Date button, while it is not disabled
SaveAllAutoFolders ==
    /\ app.auto_make_folders = "normal"
    /\ \E infoResp \in Responses(Charts) :
         Press(save_all_auto_folders(Begin("save_all_auto_folders"), now,
                                     infoResp))

\* lines 72-73
join_dialog_2(m) ==
    IF m.app.dialog_2 # None
    THEN [Joined(m, m.app.dialog_2) EXCEPT !.app.dialog_2 = join(@)]
    ELSE m

\* lines 69-71
join_dialog(m) ==
    IF m.app.dialog # None
    THEN [Joined(m, m.app.dialog) EXCEPT !.app.dialog = join(@)]
    ELSE m

\* line 74: master.quit() ends the main loop; the threads of the process that
\* are still running then
main_loop_ended(m) == [m EXCEPT !.log.alive = m.app.threads]

\* quit_func, lines 62-74: the dialogs are joined and the main loop ends
quit_func(m) == main_loop_ended(join_dialog_2(join_dialog(m)))

\* the Quit button; the script ends after the main loop, and the process
Quit ==
    /\ running
    /\ Commit([quit_func(Begin("quit")) EXCEPT !.app = AppOff])
    /\ running' = FALSE
    /\ UNCHANGED <<now, runs, presses, edits, probe>>

\* What the user types and clicks between button presses.
NameChoices == {iss, HST}

UserEdit(a) ==
    /\ running
    /\ edits < MaxEdits
    /\ edits' = edits + 1
    /\ Commit([Begin("edit") EXCEPT !.app = a])
    /\ UNCHANGED <<now, running, runs, presses, probe>>

\* an entry of the drop-down menu is chosen
Pick == \E k \in 2..Len(app.toi_list) :
            /\ app.toi_list[k] # app.selection
            /\ UserEdit([app EXCEPT !.selection = app.toi_list[k]])

\* the name box is overwritten
EditName == \E n \in NameChoices : n # app.name /\ UserEdit([app EXCEPT !.name = n])

\* the Satellite Tracking check button
ToggleSatelliteTracking ==
    UserEdit([app EXCEPT !.satellite_tracking = 1 - @])

\* the Self Guide check button
ToggleSelfGuide == UserEdit([app EXCEPT !.self_guide = 1 - @])

\* the Guide check button
ToggleGuide == UserEdit([app EXCEPT !.guide = 1 - @])

\* the numbers of characters of satellites.txt on the disk when the process
\* is killed during the write
Cuts == {0, 2}

\* lines 138-139, cut short: the file has been opened for writing and holds
\* the first cut characters of the text when the process is killed
interrupted_write(m, t, idx, cut) ==
    IF ~idx.ok THEN Raise(m, "IndexError")
    ELSE Raise([m EXCEPT !.fs.satellites =
                   File(SubSeq(SatellitesText(idx.set), 1, cut), t)],
               "killed")

\* lines 125-139, cut short
interrupted_satellites(m, t, feed, cut) ==
    IF ~Ok(m) THEN m
    ELSE interrupted_write(
             Logged(Launched(m, satellite_wait),
                    LoadEvent("satellites", m.fs.satellites, t, 1, FALSE)),
             t, SatelliteIndex(feed), cut)

\* The program is started and the process is killed (power loss, kill -9)
\* while check_toi is writing satellites.txt.
Interrupted ==
    /\ ~running
    /\ runs < MaxRuns
    /\ ~satellites_cached(fs.satellites, now)
    /\ \E sheetResp \in Responses(Sheets), feed \in Feeds, cut \in Cuts :
         Started(interrupted_satellites(
                     fetch_google([Begin("start") EXCEPT !.app = AppOff], now,
                                  sheetResp),
                     now, feed, cut))
    /\ runs' = runs + 1
    /\ UNCHANGED <<now, presses, edits, probe>>

\* the program is left open while time passes
Idle ==
    /\ running
    /\ edits < MaxEdits
    /\ edits' = edits + 1
    /\ \E d \in TickSteps : now + d <= MaxTime /\ now' = now + d
    /\ log' = EmptyLog("idle")
    /\ UNCHANGED <<fs, tickets, folders, running, runs, presses, app, probe>>

\* time passes between two runs of the program
Tick ==
    /\ ~running
    /\ \E d \in TickSteps : now + d <= MaxTime /\ now' = now + d
    /\ log' = EmptyLog("tick")
    /\ UNCHANGED <<fs, tickets, folders, running, runs, presses, edits, app, probe>>

Next ==
    \/ Start
    \/ Interrupted
    \/ Select
    \/ Apply
    \/ Clear
    \/ SaveAll
    \/ SaveAllAutoFolders
    \/ Quit
    \/ Pick
    \/ EditName
    \/ ToggleSatelliteTracking
    \/ ToggleSelfGuide
    \/ ToggleGuide
    \/ Idle
    \/ Tick

Spec == Init /\ [][Next]_vars

(***************************************************************************)
(* The pure functions on their own: each behaviour draws one input and     *)
(* applies target_grab's resolution of the clocks or list_split to it.     *)
(***************************************************************************)
\* nights at the start of a month, the end of a month, the end of February
\* of a leap year and the end of a year
PureNights == {<<"2", "0", "2", "4", "-", "0", "6", "-", "0", "1">>, <<"2", "0", "2", "4", "-", "0", "6", "-", "3", "0">>, <<"2", "0", "2", "4", "-", "0", "2", "-", "2", "8">>, <<"2", "0", "2", "4", "-", "1", "2", "-", "3", "1">>}

\* clocks on both sides of noon and of midnight, and clocks strptime rejects
PureClocks == {<<"0", "0", ":", "3", "0">>, <<"0", "5", ":", "0", "0">>, <<"1", "1", ":", "5", "9">>, <<"1", "2", ":", "0", "0">>, <<"1", "2", ":", "0", "1">>,
               <<"1", "2", ":", "5", "9">>, <<"1", "3", ":", "0", "0">>, <<"2", "3", ":", "5", "9">>, <<"2", "4", ":", "0", "0">>, <<"1", "2", ":", "6", "0">>,
               <<"n", "o", "o", "n">>}

\* texts of the filter box, each with the values it names
PureFilters ==
    {[text |-> <<"v">>, values |-> << <<"v">> >>],
     [text |-> <<"R">>, values |-> << <<"r">> >>],
     [text |-> <<"H", "a">>, values |-> << <<"H", "a">> >>],
     [text |-> <<"H", "A">>, values |-> << <<"h", "a">> >>],
     [text |-> <<"H", "a", ",", " ", "v", ",", " ", "R">>, values |-> << <<"H", "a">>, <<"v">>, <<"r">> >>],
     [text |-> <<"V", ",", "r">>, values |-> << <<"v">>, <<"r">> >>],
     [text |-> <<"h", "a", " ", ",", " ", "H", "a">>, values |-> << <<"h", "a">>, <<"H", "a">> >>],
     [text |-> <<"B", ",", "V", ",", "R", ",", "I">>, values |-> << <<"b">>, <<"v">>, <<"r">>, <<"i">> >>]}

\* a sheet with rows that lack a target or a night among past and coming
\* nights
SheetGaps ==
    [columns |-> AllColumns,
     rows |-> << Row(<<"2", "0", "2", "4", "-", "0", "5", "-", "3", "0">>, HST, <<"2", "2", ":", "0", "0">>, <<"2", "3", ":", "0", "0">>, <<"v">>, <<"3", "0", "s">>, CCD, 0, 0),
                 Row(<<"2", "0", "2", "4", "-", "0", "6", "-", "0", "5">>, nan, <<"2", "2", ":", "0", "0">>, <<"2", "3", ":", "0", "0">>, <<"v">>, <<"3", "0", "s">>, CCD, 0, 0),
                 Row(<<"2", "0", "2", "4", "-", "0", "6", "-", "0", "7">>, HST, <<"2", "2", ":", "0", "0">>, <<"2", "3", ":", "0", "0">>, <<"v">>, <<"3", "0", "s">>, CCD, 1, 3),
                 Row(nan, ISS, <<"2", "2", ":", "0", "0">>, <<"2", "3", ":", "0", "0">>, <<"v">>, <<"3", "0", "s">>, CCD, 0, 0),
                 Row(<<"2", "0", "2", "4", "-", "0", "6", "-", "0", "5">>, <<"T", "O", "I", " ", "1", "2", ".", "0", "1">>, <<"0", "1", ":", "0", "0">>, <<"0", "2", ":", "0", "0">>, <<"R">>, <<"1", "0", "s">>, NIR, 0, 0),
                 Row(<<"2", "0", "2", "4", "-", "0", "6", "-", "0", "1">>, ISS, <<"2", "2", ":", "0", "0">>, <<"2", "3", ":", "0", "0">>, <<"v">>, <<"3", "0", "s">>, CCD, 0, 0),
                 Row(nan, nan, nan, nan, nan, nan, CCD, 0, 0) >>]

\* a sheet of thirteen coming nights
SheetLong ==
    [columns |-> AllColumns,
     rows |-> [k \in 1..13 |->
                  Row(str_date([y |-> 2024, m |-> 6, d |-> k + 1]), HST,
                      <<"2", "2", ":", "0", "0">>, <<"2", "3", ":", "0", "0">>, <<"v">>, <<"3", "0", "s">>, CCD, 0, 0)]]

PureSheets == {Sheet1, Sheet2, SheetGaps, SheetLong}

PureTodays == {<<"2", "0", "2", "4", "-", "0", "6", "-", "0", "1">>, <<"2", "0", "2", "4", "-", "0", "6", "-", "0", "5">>, <<"2", "0", "2", "4", "-", "0", "6", "-", "0", "8">>, <<"2", "0", "2", "4", "-", "0", "7", "-", "0", "1">>}

ProbeInputs ==
    {[fn |-> "ResolveTimes", arg |-> [nod |-> n, start |-> s, end |-> e],
      done |-> FALSE, out |-> <<>>] :
        n \in PureNights, s \in PureClocks, e \in PureClocks}
    \cup {[fn |-> "list_split", arg |-> f, done |-> FALSE, out |-> <<>>] :
            f \in PureFilters}
    \cup {[fn |-> f, arg |-> [sheet |-> sh, today |-> d], done |-> FALSE,
           out |-> <<>>] :
            f \in {"create_list", "create_list_pyw"}, sh \in PureSheets,
            d \in PureTodays}

InitPure == Fresh /\ probe \in ProbeInputs

\* the function's result is stored with its input
Probed(out) ==
    /\ probe' = [probe EXCEPT !.done = TRUE, !.out = out]
    /\ UNCHANGED <<now, fs, tickets, folders, running, runs, presses, edits,
                   app, log>>

\* lines 186 and 225-240 for a night and two clocks
ProbeTimes ==
    /\ probe.fn = "ResolveTimes"
    /\ ~probe.done
    /\ Probed(ResolveTimes(strptime_date(probe.arg.nod).date, probe.arg.start,
                           probe.arg.end))

\* list_split(filter_) for a text of the filter box
ProbeListSplit ==
    /\ probe.fn = "list_split"
    /\ ~probe.done
    /\ Probed(list_split_filter(probe.arg.text))

\* create_list for a sheet and a date of today
ProbeCreateList ==
    /\ probe.fn = "create_list"
    /\ ~probe.done
    /\ Probed(create_list(probe.arg.sheet, strptime_date(probe.arg.today).date))

\* create_list of Observation_ticket_creator.pyw for a sheet and a date
ProbeCreateListPyw ==
    /\ probe.fn = "create_list_pyw"
    /\ ~probe.done
    /\ Probed(create_list_pyw(probe.arg.sheet,
                              strptime_date(probe.arg.today).date))

NextPure ==
    \/ ProbeTimes
    \/ ProbeListSplit
    \/ ProbeCreateList
    \/ ProbeCreateListPyw

SpecPure == InitPure /\ [][NextPure]_vars

(***************************************************************************)
(* The claims                                                              *)
(***************************************************************************)
\* a local copy that exists and is less than 12 hours old
FreshCopy(f) == f.exists /\ now - f.mtime < TTL_HOURS

\* the loads of the last handler that issued a request for resource res
Requests(lg, res) ==
    {k \in 1..Len(lg.loads) : lg.loads[k].res = res /\ lg.loads[k].requests > 0}

\* C1, amended: when a local copy of the ephemeris table or of the satellite
\* catalog exists and is less than 12 hours old, loading it performs no network
\* request, and a handler that loads one of them several times requests it at
\* most once; the schedule sheet is requested on every load, whatever the age
\* of its local copy.
C1_FreshCopyIsNotRequested ==
    [][ /\ FreshCopy(fs.satellites) => Requests(log', "satellites") = {}
        /\ FreshCopy(fs.info_chart) => Requests(log', "info_chart") = {}
        /\ Cardinality(Requests(log', "satellites")) <= 1
        /\ Cardinality(Requests(log', "info_chart")) <= 1
        /\ \A k \in 1..Len(log'.loads) :
              log'.loads[k].res = "google" => log'.loads[k].requests = 1 ]_vars

\* the program is started while its satellite catalog and its ephemeris table
\* are less than 12 hours old, and it loads both without a request
C1_Witness ==
    /\ log.op = "start"
    /\ \E k \in 1..Len(log.loads) :
          /\ log.loads[k].res = "satellites"
          /\ log.loads[k].existed /\ log.loads[k].age < TTL_HOURS
          /\ log.loads[k].requests = 0
    /\ \E k \in 1..Len(log.loads) :
          /\ log.loads[k].res = "info_chart"
          /\ log.loads[k].existed /\ log.loads[k].age < TTL_HOURS
          /\ log.loads[k].requests = 0

\* C1 as stated: for each of the three resources, a load performs no network
\* request when a local copy exists that is less than 12 hours old.
C1_Original ==
    [][ /\ FreshCopy(fs.satellites) => Requests(log', "satellites") = {}
        /\ FreshCopy(fs.info_chart) => Requests(log', "info_chart") = {}
        /\ FreshCopy(fs.google) => Requests(log', "google") = {} ]_vars

\* a clock of the form HH:MM with HH in 00..23 and MM in 00..59
WellFormedClock(s) ==
    /\ Len(s) = 5
    /\ s[3] = ":"
    /\ \A i \in {1, 2, 4, 5} : IsDigit(s[i])
    /\ DigitVal(s[1]) * 10 + DigitVal(s[2]) <= 23
    /\ DigitVal(s[4]) * 10 + DigitVal(s[5]) <= 59

ClockHour(s) == DigitVal(s[1]) * 10 + DigitVal(s[2])

\* the date the claim gives a clock of the night nod
RolledDate(nod, s) ==
    IF ClockHour(s) <= 12 THEN str_date(PlusOneDay(strptime_date(nod).date))
    ELSE nod

ResolvedProbe == probe.fn = "ResolveTimes" /\ probe.done

\* C2: for well-formed HH:MM start and end clocks the start timestamp has the
\* date night_of_date + 1 day when the start hour is <= 12 and night_of_date
\* when it is > 12, the end timestamp follows the same rule on the end clock,
\* and each timestamp is '<resolved date> HH:MM:00'.
C2_RolloverByHour ==
    (/\ ResolvedProbe
     /\ WellFormedClock(probe.arg.start)
     /\ WellFormedClock(probe.arg.end))
    => /\ probe.out.ok
       /\ probe.out.begin = RolledDate(probe.arg.nod, probe.arg.start)
                            \o <<" ">> \o probe.arg.start \o <<":", "0", "0">>
       /\ probe.out.end = RolledDate(probe.arg.nod, probe.arg.end)
                          \o <<" ">> \o probe.arg.end \o <<":", "0", "0">>

\* a start at 12:59 rolls to the next day and an end at 13:00 does not
C2_Witness ==
    /\ ResolvedProbe
    /\ probe.arg = [nod |-> <<"2", "0", "2", "4", "-", "0", "6", "-", "3", "0">>, start |-> <<"1", "2", ":", "5", "9">>,
                    end |-> <<"1", "3", ":", "0", "0">>]
    /\ probe.out.begin = <<"2", "0", "2", "4", "-", "0", "7", "-", "0", "1", " ", "1", "2", ":", "5", "9", ":", "0", "0">>
    /\ probe.out.end = <<"2", "0", "2", "4", "-", "0", "6", "-", "3", "0", " ", "1", "3", ":", "0", "0", ":", "0", "0">>

\* the calendar day after each night of PureNights
DayAfter(nod) ==
    IF nod = <<"2", "0", "2", "4", "-", "0", "6", "-", "0", "1">> THEN <<"2", "0", "2", "4", "-", "0", "6", "-", "0", "2">>
    ELSE IF nod = <<"2", "0", "2", "4", "-", "0", "6", "-", "3", "0">> THEN <<"2", "0", "2", "4", "-", "0", "7", "-", "0", "1">>
    ELSE IF nod = <<"2", "0", "2", "4", "-", "0", "2", "-", "2", "8">> THEN <<"2", "0", "2", "4", "-", "0", "2", "-", "2", "9">>
    ELSE <<"2", "0", "2", "5", "-", "0", "1", "-", "0", "1">>

\* the date of the start timestamp
BeginDate == SubSeq(probe.out.begin, 1, 10)

\* C3, amended: a start clock of "00:30", "12:00" or "12:01" resolves to the
\* calendar day after night_of_date, and a start clock of "23:59" resolves to
\* night_of_date itself.
C3_StartsAroundNoon ==
    (ResolvedProbe /\ WellFormedClock(probe.arg.end))
    => /\ probe.arg.start \in {<<"0", "0", ":", "3", "0">>, <<"1", "2", ":", "0", "0">>, <<"1", "2", ":", "0", "1">>}
            => BeginDate = DayAfter(probe.arg.nod)
       /\ probe.arg.start = <<"2", "3", ":", "5", "9">> => BeginDate = probe.arg.nod

\* a start at 12:01 on the last night of a month is dated the first of the next
C3_Witness ==
    /\ ResolvedProbe
    /\ probe.arg.nod = <<"2", "0", "2", "4", "-", "0", "6", "-", "3", "0">>
    /\ probe.arg.start = <<"1", "2", ":", "0", "1">>
    /\ probe.out.ok
    /\ BeginDate = <<"2", "0", "2", "4", "-", "0", "7", "-", "0", "1">>

\* C3 as stated: "00:30" and "12:00" resolve to the day after night_of_date,
\* "12:01" and "23:59" to night_of_date itself.
C3_Original ==
    (ResolvedProbe /\ WellFormedClock(probe.arg.end))
    => /\ probe.arg.start \in {<<"0", "0", ":", "3", "0">>, <<"1", "2", ":", "0", "0">>}
            => BeginDate = DayAfter(probe.arg.nod)
       /\ probe.arg.start \in {<<"1", "2", ":", "0", "1">>, <<"2", "3", ":", "5", "9">>}
            => BeginDate = probe.arg.nod

\* C4: when a row is put into its date folder a second time, the folder keeps
\* exactly the file archived first, unchanged, and the newly written file is
\* deleted from the root directory; no file of a date folder is ever changed
\* or taken away.
C4_FirstArchivedFileStays ==
    [][ /\ \A d \in DOMAIN folders :
              /\ d \in DOMAIN folders'
              /\ \A f \in DOMAIN folders[d] :
                    f \in DOMAIN folders'[d] /\ folders'[d][f] = folders[d][f]
        /\ \A it \in log'.removed :
              /\ it.name \notin DOMAIN tickets'
              /\ it.folder \in DOMAIN folders
              /\ it.name \in DOMAIN folders[it.folder]
              /\ folders'[it.folder][it.name] = folders[it.folder][it.name] ]_vars

\* a second run has written a row's ticket with other content than the file
\* in the folder, and the new file was removed
C4_Witness ==
    \E it \in log.removed :
        /\ it.name \in DOMAIN folders[it.folder]
        /\ folders[it.folder][it.name] # it.content
        /\ it.name \notin DOMAIN tickets

\* a string float() accepts: digits with at most one point
IsNumber(s) ==
    /\ \A i \in 1..Len(s) : IsDigit(s[i]) \/ s[i] = "."
    /\ \E i \in 1..Len(s) : IsDigit(s[i])
    /\ Cardinality({i \in 1..Len(s) : s[i] = "."}) <= 1

\* the comma-separated values of a box, blanks removed
Values(text) == str_split(str_replace(text, <<" ">>, <<>>), <<",">>)

\* the exposure-time and number-of-exposures boxes hold numbers
NumericFields(b) ==
    /\ AllDigits(b.n_exposures)
    /\ \A k \in 1..Len(Values(b.exposure_time)) :
          IsNumber(Values(b.exposure_time)[k])

\* satellite tracking is not requested or the name is in the catalog
PassesCatalog(b) ==
    b.satellite_tracking = 0 \/ str_upper(b.name) \in b.catalog

\* the catalog built from each feed of Feeds
Catalogs == { {<<"I", "S", "S", " ", "(", "Z", "A", "R", "Y", "A", ")">>, ISS}, {HST} }

\* C5, amended: building a ticket writes a ticket file if and only if
\* (satellite tracking is not requested or the uppercased name is in the
\* catalog) and the exposure-time and number-of-exposures fields hold numbers;
\* the catalog that a start builds from the feed holds each name in upper
\* case and, for a name with a parenthetical, also the part before the
\* parenthesis; a build that writes no file creates no file and changes none.
C5_WritesIffInCatalogAndNumeric ==
    /\ \A k \in 1..Len(log.builds) :
          /\ log.builds[k].wrote <=>
                 (PassesCatalog(log.builds[k]) /\ NumericFields(log.builds[k]))
          /\ ~log.builds[k].wrote => log.builds[k].files_same
    /\ (running /\ log.op = "start" /\ Requests(log, "satellites") # {})
           => app.SATELLITES \in Catalogs

\* a ticket named "iss" with satellite tracking is written against a catalog
\* built from "ISS (ZARYA)"
C5_Witness ==
    \E k \in 1..Len(log.builds) :
        /\ log.builds[k].name = iss
        /\ log.builds[k].satellite_tracking = 1
        /\ <<"I", "S", "S", " ", "(", "Z", "A", "R", "Y", "A", ")">> \in log.builds[k].catalog
        /\ log.builds[k].wrote

\* C5 as stated: a build writes a ticket file if and only if satellite
\* tracking is not requested or the uppercased name is in the catalog.
C5_Original ==
    \A k \in 1..Len(log.builds) :
        log.builds[k].wrote <=> PassesCatalog(log.builds[k])

RowOf(entry) ==
    fs.google.content.rows[row_index(str_split(entry, <<":", " ">>)[2]).val + 1]

\* the row fails: its start or end clock is malformed, or its satellite is
\* not in the catalog
RowFails(r) ==
    \/ ~WellFormedClock(r.Start)
    \/ ~WellFormedClock(r.End)
    \/ r.SatelliteTracking # 0 /\ str_upper(r.Target) \notin app.SATELLITES

\* C7: in Save All and in Save All into Folders by Date, a row that fails
\* (satellite not found, malformed clock) does not stop or skip the other
\* rows: every other listed row is resolved, built and written.
C7_BatchWritesEveryOtherRow ==
    (log.op \in {"save_all", "save_all_auto_folders"}
         /\ log.exc # "RequestException")
    => \A k \in 2..Len(app.toi_list) :
          \/ RowFails(RowOf(app.toi_list[k]))
          \/ \E w \in 1..Len(log.writes) :
                log.writes[w] = ticket_file(app.toi_list[k])

\* C8: when the request for a remote resource raises or times out, the
\* handler ends with that exception and the local copy of the resource is
\* as it was: the same content and the same modification time, or no file.
C8_FailedRequestKeepsCopy ==
    [][ \A k \in 1..Len(log'.loads) :
            log'.loads[k].raised
            => /\ log'.exc = "RequestException"
               /\ fs'[log'.loads[k].res] = fs[log'.loads[k].res] ]_vars

\* a request has raised for a resource that has a local copy
C8_Witness ==
    \E k \in 1..Len(log.loads) :
        /\ log.loads[k].raised
        /\ log.loads[k].existed
        /\ fs[log.loads[k].res].exists
        /\ log.exc = "RequestException"

\* the JSON text of a list of strings
JsonText(values) ==
    <<"[">> \o str_join(<<",", " ">>, [k \in 1..Len(values) |->
                                   <<"\"">> \o values[k] \o <<"\"">>])
    \o <<"]">>

SplitProbe == probe.fn = "list_split" /\ probe.done

\* C9, amended: the filter field is, for a comma-separated input with several
\* values, one string: the JSON text of the list of those values in input
\* order, each lowercased except the exact token "Ha"; for an input with a
\* single value it is that one string, lowercased unless it is "Ha".
C9_FilterIsOneString ==
    SplitProbe
    => /\ probe.out.type = "str"
       /\ Len(probe.arg.values) > 1
            => probe.out.val = JsonText(probe.arg.values)
       /\ Len(probe.arg.values) = 1 => probe.out.val = probe.arg.values[1]

\* "Ha, v, R" gives the text ["Ha", "v", "r"]
C9_Witness ==
    /\ SplitProbe
    /\ probe.arg.text = <<"H", "a", ",", " ", "v", ",", " ", "R">>
    /\ probe.out = PyStr(<<"[", "\"", "H", "a", "\"", ",", " ", "\"", "v", "\"", ",", " ", "\"", "r", "\"", "]">>)

\* C9 as stated: several values give an ordered list of the values, each
\* lowercased except "Ha"; a single value gives that one string.
C9_Original ==
    SplitProbe
    => /\ Len(probe.arg.values) > 1
            => probe.out = PyList([k \in 1..Len(probe.arg.values) |->
                                      PyStr(probe.arg.values[k])])
       /\ Len(probe.arg.values) = 1 => probe.out = PyStr(probe.arg.values[1])

\* YYYYMMDD of the night of an entry of the list
NightFolder(entry) == str_replace(str_split(entry, <<":", " ">>)[1], <<"-">>, <<>>)

\* C10: after Save All into Folders by Date, the ticket file of every
\* materialized row lies in the folder named YYYYMMDD of the row's
\* night_of_date.
C10_FolderIsNightOfDate ==
    \A it \in log.archived \cup log.removed :
        it.folder = NightFolder(it.target)


\* the schedule sheet lacks the column c
Lacks(c) == c \notin fs.google.content.columns

\* C11: when the schedule sheet lacks the Camera, Satellite Tracking or
\* Tracking Mode column, listing and resolving a row still complete and give
\* camera "CCD", satellite tracking off and tracking mode 0.
C11_OptionalColumnsDefault ==
    (/\ log.op = "start"
     /\ log.exc \notin {"RequestException", "killed"}
     /\ fs.google.exists
     /\ Lacks("Camera") \/ Lacks("Satellite Tracking") \/ Lacks("Tracking Mode"))
    => /\ running
       /\ Lacks("Camera") => app.camera = CCD
       /\ Lacks("Satellite Tracking") => app.satellite_tracking = 0
       /\ Lacks("Tracking Mode") => app.satellite_tracking_mode = 0

\* a date YYYY-MM-DD as the number YYYYMMDD
DateNum(text) == DecVal(str_replace(text, <<"-">>, <<>>))

\* the rows of the probed sheet (counted from 1) whose target and night are
\* present and whose night is today or later
Listed ==
    {x \in 1..Len(probe.arg.sheet.rows) :
        /\ probe.arg.sheet.rows[x].Target # nan
        /\ probe.arg.sheet.rows[x].NoD # nan
        /\ DateNum(probe.arg.sheet.rows[x].NoD) >= DateNum(probe.arg.today)}

\* the k-th of them in the sheet's row order
KthListed(k) == CHOOSE x \in Listed : Cardinality({y \in Listed : y < x}) = k - 1

endswith(s, p) == Len(s) >= Len(p) /\ SubSeq(s, Len(s) - Len(p) + 1, Len(s)) = p

ListProbe(fn) == probe.fn = fn /\ probe.done /\ probe.out.exc = "none"

\* C12, amended: in the current revision the listing contains exactly the
\* sheet rows whose target and night-of-date are both present and whose
\* night-of-date is today or later, one entry per such row and no others, in
\* the sheet's row order, for a sheet of any length; the create_list of
\* Observation_ticket_creator.pyw lists only the first 11 of these rows.
C12_ListingIsTheComingRows ==
    /\ ListProbe("create_list")
        => /\ Len(probe.out.list) = Cardinality(Listed)
           /\ \A k \in 1..Len(probe.out.list) :
                 /\ startswith(probe.out.list[k],
                        probe.arg.sheet.rows[KthListed(k)].NoD \o <<":", " ">>)
                 /\ endswith(probe.out.list[k],
                        <<"_", "#">> \o str_int(KthListed(k) - 1))
    /\ ListProbe("create_list_pyw")
        => /\ Len(probe.out.list) =
                 (IF Cardinality(Listed) < 11 THEN Cardinality(Listed) ELSE 11)
           /\ \A k \in 1..Len(probe.out.list) :
                 probe.out.list[k] =
                     probe.arg.sheet.rows[KthListed(k)].NoD \o <<":", " ">>
                     \o probe.arg.sheet.rows[KthListed(k)].Target

\* the current revision lists all thirteen rows of a long sheet, and three
\* of the seven rows of a sheet with gaps
C12_Witness ==
    /\ ListProbe("create_list")
    /\ \/ probe.arg.sheet = SheetLong /\ Len(probe.out.list) = 13
       \/ /\ probe.arg.sheet = SheetGaps
          /\ probe.arg.today = <<"2", "0", "2", "4", "-", "0", "6", "-", "0", "5">>
          /\ Len(probe.out.list) = 2

\* C12 as stated, for both revisions of create_list: one entry for each such
\* row, in row order, for a sheet of any length.
C12_Original ==
    (ListProbe("create_list") \/ ListProbe("create_list_pyw"))
    => /\ Len(probe.out.list) = Cardinality(Listed)
       /\ \A k \in 1..Len(probe.out.list) :
             startswith(probe.out.list[k],
                        probe.arg.sheet.rows[KthListed(k)].NoD \o <<":", " ">>)

\* the titles of the please-wait dialogs
WaitTitles == {"Downloading satellite info", "Downloading TOI info"}

\* the thread d has been told to stop and has ended
Terminated(lg, d) == \E j \in 1..Len(lg.joined) : lg.joined[j] = join(d)

\* C13: every please-wait dialog thread started alongside a remote fetch has
\* terminated once the handler that fetched has ended, also when the request
\* raised an error or timed out.
C13_WaitDialogEnds ==
    log.exc # "killed" =>
    \A k \in 1..Len(log.started) :
        log.started[k].title \in WaitTitles => Terminated(log, log.started[k])

\* the loads of the last handler that took resource res from its local copy
CacheReads(lg, res) ==
    {k \in 1..Len(lg.loads) : lg.loads[k].res = res /\ lg.loads[k].requests = 0}

\* the texts of satellites.txt that a completed fetch writes
CompleteSatellites == {SatellitesText(S) : S \in Catalogs}

\* C14: whenever a cached file is read or counted as fresh under the 12 hour
\* rule, its content is the complete content of one completed fetch, never an
\* empty or truncated file, also when a run was interrupted during a refresh.
C14_CachedFileIsComplete ==
    /\ CacheReads(log, "satellites") # {} =>
           fs.satellites.content \in CompleteSatellites
    /\ CacheReads(log, "info_chart") # {} => fs.info_chart.content \in Charts
    /\ (log.op = "start" /\ Ok(Machine)) => fs.google.content \in Sheets

\* C15: for each cached resource, when no local copy exists or the local copy
\* is 12 hours old or older (exactly 12 hours included), loading it issues
\* exactly one network request, and when the request succeeds the local copy
\* is overwritten and carries the time of the load.
C15_ExpiredCopyIsRequested ==
    \A k \in 1..Len(log.loads) :
        (~log.loads[k].existed \/ log.loads[k].age >= TTL_HOURS)
        => /\ log.loads[k].requests = 1
           /\ ~log.loads[k].raised => /\ fs[log.loads[k].res].exists
                                      /\ fs[log.loads[k].res].mtime = now

\* C16: every ticket written with satellite_tracking true has self_guide
\* false, after any sequence of Select, check box changes, Apply and batch
\* saves.
C16_TrackingDisablesSelfGuide ==
    \A f \in DOMAIN tickets :
        tickets[f].satellite_tracking => ~tickets[f].self_guide

\* C17: every build that fails the satellite check reports the identifier
\* that was requested in that build, also when an earlier failure for another
\* name is still displayed.
C17_FailureNamesTheRequest ==
    \A k \in 1..Len(log.builds) :
        (log.builds[k].exc = "none" /\ ~log.builds[k].wrote)
        => /\ log.builds[k].dialog_after # None
           /\ log.builds[k].dialog_after.arg = log.builds[k].name

\* the minutes since midnight of a clock HH:MM
ClockMinutes(s) == ClockHour(s) * 60 + DigitVal(s[4]) * 10 + DigitVal(s[5])

\* the timestamp a is earlier than the timestamp b, both 'YYYY-MM-DD HH:MM:SS'
Earlier(a, b) ==
    \/ DateNum(SubSeq(a, 1, 10)) < DateNum(SubSeq(b, 1, 10))
    \/ /\ SubSeq(a, 1, 10) = SubSeq(b, 1, 10)
       /\ ClockMinutes(SubSeq(a, 12, 16)) < ClockMinutes(SubSeq(b, 12, 16))

\* C18: for every row whose start clock is earlier in the day than its end
\* clock, the resolved start timestamp is earlier than the resolved end
\* timestamp.
C18_ClockOrderIsKept ==
    (/\ ResolvedProbe
     /\ WellFormedClock(probe.arg.start)
     /\ WellFormedClock(probe.arg.end)
     /\ ClockMinutes(probe.arg.start) < ClockMinutes(probe.arg.end))
    => /\ probe.out.ok
       /\ Earlier(probe.out.begin, probe.out.end)

\* C19: after Quit is pressed, following any sequence of Select, Apply and
\* batch saves, every dialog thread that was started has been told to stop and
\* has terminated, so that the process can exit.
C19_QuitEndsEveryDialog == log.op = "quit" => log.alive = <<>>

====
